---- MODULE Spec2Model ----
(***************************************************************************)
(* Model of tftblinky.py: class TFTBlinky, a display backlight controller   *)
(* that detects a control method (display brightness property or a named    *)
(* backlight pin), blinks the backlight and restores the captured value.    *)
(*                                                                         *)
(* The ambient hardware (module board, the display object, digitalio) is    *)
(* the environment: what exists on the board is chosen in Init, and the     *)
(* outcome of every hardware access made by __init__ is chosen when the     *)
(* access is made.  Brightness 0.0 .. 1.0 is represented by the integers    *)
(* 0 .. BrightnessSteps, 1.0 being BrightnessSteps; durations are positive  *)
(* integers (ticks).                                                        *)
(***************************************************************************)
EXTENDS Integers, Sequences, FiniteSets

\* ---------------------------------------------------------------- bounds
BrightnessSteps == 2
MaxCount == 2
MaxDur == 2

Levels == 0..BrightnessSteps
Counts == 0..MaxCount
Durations == 1..MaxDur

\* -------------------------------------------------------- environment
\* what board.DISPLAY can be: a display object without a brightness
\* attribute, one with it, None (displays released), or no such attribute
\* on board at all (AttributeError)
DisplayKinds == {"plain", "bright", "None", "missing"}

\* ------------------------------------------------------- python values
\* Python None (also the value of an absent handle / control method)
None == "None"
\* an optional captured value: <<>> when absent, <<v>> when captured
Absent == <<>>
Some(v) == <<v>>

\* line 29: the candidate list, in probing order
backlight_pins == <<"DISPLAY_BACKLIGHT", "TFT_BACKLIGHT", "BACKLIGHT">>
PinNames == {backlight_pins[i] : i \in 1..Len(backlight_pins)}

\* outcome of one hardware access in __init__: it works, or it raises
Outcomes == {"ok", "AttributeError", "TypeError", "ValueError"}
\* line 41: except (AttributeError, TypeError)
Caught == {"AttributeError", "TypeError"}

\* ------------------------------------------------------------- events
\* what an operation does to the outside world, in order
Ev(op, name, level, num) == [op |-> op, name |-> name, level |-> level, num |-> num]
Diag(msg) == Ev("print", msg, FALSE, 0)
Sleep(d) == Ev("sleep", "", FALSE, d)
PinWrite(p, v) == Ev("pin_write", p, v, 0)
BrightnessWrite(b) == Ev("brightness_write", "", FALSE, b)
MakeLine(p) == Ev("DigitalInOut", p, FALSE, 0)
SetOutput(p) == Ev("direction_output", p, FALSE, 0)
PinRead(p, v) == Ev("pin_read", p, v, 0)
Call(f) == Ev("call", f, FALSE, 0)

VARIABLES
  board_DISPLAY,        \* environment: what board.DISPLAY is
  board_pins,           \* environment: candidate names that exist on board
  brightness,           \* hardware: display.brightness
  value,                \* hardware: logic level of every candidate line
  boot_value,           \* the levels the lines had before construction
  output_value,         \* level the selected line took when made an output
  display,              \* self.display
  backlight,            \* self.backlight (name of the line, or None)
  control_method,       \* self.control_method
  original_brightness,  \* self.original_brightness
  original_state,       \* self.original_state (Absent: attribute not set)
  pc,                   \* "new", "ready", or "raised" (exception escaped)
  last,                 \* the most recent call and its arguments
  before,               \* the name of the call made before that one
  ret,                  \* return value of the most recent set_backlight
  trace                 \* events of the most recent call, in order

vars == <<board_DISPLAY, board_pins, brightness, value, boot_value, output_value,
          display, backlight, control_method, original_brightness,
          original_state, pc, last, before, ret, trace>>

\* the attributes of the controller object
fields == <<display, backlight, control_method, original_brightness, original_state>>
\* the backlight hardware
hw == <<brightness, value>>

CallRec(op, state, count, on, off) ==
  [op |-> op, state |-> state, count |-> count, on_time |-> on, off_time |-> off]

\* The controller and the hardware it drives as one record, so that the
\* methods compose as functions: out collects the events of the running
\* call, exc is the exception in flight ("none" when there is none), ret
\* the value the call returns (Absent for None).
Machine ==
  [display |-> display, backlight |-> backlight,
   control_method |-> control_method,
   original_brightness |-> original_brightness,
   original_state |-> original_state,
   brightness |-> brightness, value |-> value, output_value |-> output_value,
   out |-> <<>>, exc |-> "none", ret |-> Absent]

Emit(m, e) == [m EXCEPT !.out = Append(@, e)]
Raise(m, e) == [m EXCEPT !.exc = e]

Init ==
  /\ board_DISPLAY \in DisplayKinds
  /\ board_pins \in SUBSET PinNames
  /\ brightness \in (IF board_DISPLAY = "bright" THEN Levels ELSE {0})
  /\ value \in [PinNames -> BOOLEAN]
  /\ \A p \in PinNames \ board_pins : value[p] = FALSE
  /\ boot_value = value
  /\ output_value = Absent
  /\ display = None
  /\ backlight = None
  /\ control_method = None
  /\ original_brightness = Absent
  /\ original_state = Absent
  /\ pc = "new"
  /\ last = CallRec("none", FALSE, 0, 0, 0)
  /\ before = "none"
  /\ ret = Absent
  /\ trace = <<>>

\* ------------------------------------------------------------ __init__
\* the loop without its break: the last candidate that exists wins
RECURSIVE probe_no_break(_, _)
probe_no_break(pins, i) ==
  IF i > Len(backlight_pins) THEN 0
  ELSE LET later == probe_no_break(pins, i + 1) IN
       IF later # 0 THEN later
       ELSE IF backlight_pins[i] \in pins THEN i ELSE 0

\* lines 30-31: the first candidate, in list order from position i, that
\* exists on board; 0 when none does
RECURSIVE probe(_, _)
probe(pins, i) ==
  IF i > Len(backlight_pins) THEN 0
  ELSE IF backlight_pins[i] \in pins THEN i
  ELSE probe(pins, i + 1)

\* the level sampled before the line is made an output
pin_setup_sample_first(m, name, f32, f33, f35, v) ==
  LET m32 == Emit(m, MakeLine(name)) IN
  IF f32 # "ok" THEN Raise(m32, f32) ELSE
  LET m35 == Emit([m32 EXCEPT !.backlight = name],
                  PinRead(name, m32.value[name])) IN
  IF f35 # "ok" THEN Raise(m35, f35) ELSE
  LET m33 == Emit([m35 EXCEPT !.original_state = Some(m35.value[name])],
                  SetOutput(name)) IN
  IF f33 # "ok" THEN Raise(m33, f33) ELSE
  Emit([m33 EXCEPT !.value[name] = v, !.output_value = Some(v),
                   !.control_method = "pin"],
       Diag("Using pin for backlight control"))

\* lines 32-37: set up the matched line.  f32, f33, f35 are the outcomes of
\* DigitalInOut(...), of the direction assignment and of reading .value;
\* v is the level the line drives once it is an output.
pin_setup(m, name, f32, f33, f35, v) ==
  LET m32 == Emit(m, MakeLine(name)) IN
  IF f32 # "ok" THEN Raise(m32, f32) ELSE
  LET m33 == Emit([m32 EXCEPT !.backlight = name], SetOutput(name)) IN
  IF f33 # "ok" THEN Raise(m33, f33) ELSE
  LET m34 == [m33 EXCEPT !.value[name] = v, !.output_value = Some(v),
                         !.control_method = "pin"]
      m35 == Emit(m34, PinRead(name, m34.value[name])) IN
  IF f35 # "ok" THEN Raise(m35, f35) ELSE
  Emit([m35 EXCEPT !.original_state = Some(m35.value[name])],
       Diag("Using pin for backlight control"))

\* lines 20-40: the body of the try block.  d is board.DISPLAY, pins the
\* candidate names on board, f25 the outcome of reading display.brightness.
try_body(m, d, pins, f25, f32, f33, f35, v) ==
  IF d = "missing" THEN Raise(m, "AttributeError") ELSE
  LET m20 == [m EXCEPT !.display = d] IN
  IF d = "bright" THEN
    LET m24 == [m20 EXCEPT !.control_method = "brightness"] IN
    IF f25 # "ok" THEN Raise(m24, f25) ELSE
    Emit([m24 EXCEPT !.original_brightness = Some(m24.brightness)],
         Diag("Using display brightness control"))
  ELSE
    LET i == probe(pins, 1)
        m30 == IF i = 0 THEN m20
               ELSE pin_setup(m20, backlight_pins[i], f32, f33, f35, v) IN
    IF m30.exc = "none" /\ m30.control_method = None
    THEN Emit(m30, Diag("Could not find backlight control method"))
    ELSE m30

\* lines 13-42: the attribute defaults, the try block and its handler
init(m, d, pins, f25, f32, f33, f35, v) ==
  LET m16 == [m EXCEPT !.display = None, !.backlight = None,
                       !.control_method = None,
                       !.original_brightness = Absent]
      m40 == try_body(m16, d, pins, f25, f32, f33, f35, v) IN
  IF m40.exc \in Caught
  THEN Emit(Raise(m40, "none"), Diag("No built-in display detected."))
  ELSE m40

\* ------------------------------------------------------- set_backlight
\* on and off exchanged
set_backlight_inverted(m, state) ==
  LET w == IF m.control_method = "brightness"
           THEN Emit([m EXCEPT !.brightness = IF state THEN 0 ELSE BrightnessSteps],
                     BrightnessWrite(IF state THEN 0 ELSE BrightnessSteps))
           ELSE IF m.control_method = "pin"
           THEN Emit([m EXCEPT !.value[m.backlight] = ~state],
                     PinWrite(m.backlight, ~state))
           ELSE m
  IN [w EXCEPT !.ret = Some(state)]

\* lines 50-54
set_backlight(m, state) ==
  LET w == IF m.control_method = "brightness"
           THEN Emit([m EXCEPT !.brightness = IF state THEN BrightnessSteps ELSE 0],
                     BrightnessWrite(IF state THEN BrightnessSteps ELSE 0))
           ELSE IF m.control_method = "pin"
           THEN Emit([m EXCEPT !.value[m.backlight] = state],
                     PinWrite(m.backlight, state))
           ELSE m
  IN [w EXCEPT !.ret = Some(state)]

\* ---------------------------------------------- restore_original_state
\* the captured value tested for truth instead of presence: 0.0 and False
\* are never written back
restore_if_truthy(m) ==
  LET c == Emit(m, Call("restore_original_state")) IN
  IF c.control_method = "brightness" /\ c.original_brightness # Absent
     /\ c.original_brightness # Some(0)
  THEN Emit(Emit([c EXCEPT !.brightness = c.original_brightness[1]],
                 BrightnessWrite(c.original_brightness[1])),
            Diag("Restored original brightness"))
  ELSE IF c.control_method = "pin" /\ c.original_state # Absent
          /\ c.original_state # Some(FALSE)
  THEN Emit(Emit([c EXCEPT !.value[c.backlight] = c.original_state[1]],
                 PinWrite(c.backlight, c.original_state[1])),
            Diag("Restored original backlight state"))
  ELSE c

\* the captured value exchanged with the current one instead of copied
restore_by_swap(m) ==
  LET c == Emit(m, Call("restore_original_state")) IN
  IF c.control_method = "brightness" /\ c.original_brightness # Absent
  THEN Emit(Emit([c EXCEPT !.brightness = c.original_brightness[1],
                           !.original_brightness = Some(c.brightness)],
                 BrightnessWrite(c.original_brightness[1])),
            Diag("Restored original brightness"))
  ELSE IF c.control_method = "pin" /\ c.original_state # Absent
  THEN Emit(Emit([c EXCEPT !.value[c.backlight] = c.original_state[1],
                           !.original_state = Some(c.value[c.backlight])],
                 PinWrite(c.backlight, c.original_state[1])),
            Diag("Restored original backlight state"))
  ELSE c

\* the current value recaptured on every restoration
restore_and_recapture(m) ==
  LET c == Emit(m, Call("restore_original_state")) IN
  IF c.control_method = "brightness" /\ c.original_brightness # Absent
  THEN Emit(Emit([c EXCEPT !.original_brightness = Some(c.brightness)],
                 BrightnessWrite(c.brightness)),
            Diag("Restored original brightness"))
  ELSE IF c.control_method = "pin" /\ c.original_state # Absent
  THEN Emit(Emit([c EXCEPT !.original_state = Some(c.value[c.backlight])],
                 PinWrite(c.backlight, c.value[c.backlight])),
            Diag("Restored original backlight state"))
  ELSE c

\* lines 82-87
restore_original_state(m) ==
  LET c == Emit(m, Call("restore_original_state")) IN
  IF c.control_method = "brightness" /\ c.original_brightness # Absent
  THEN Emit(Emit([c EXCEPT !.brightness = c.original_brightness[1]],
                 BrightnessWrite(c.original_brightness[1])),
            Diag("Restored original brightness"))
  ELSE IF c.control_method = "pin" /\ c.original_state # Absent
  THEN Emit(Emit([c EXCEPT !.value[c.backlight] = c.original_state[1]],
                 PinWrite(c.backlight, c.original_state[1])),
            Diag("Restored original backlight state"))
  ELSE c

\* --------------------------------------------------------------- blink
\* each wait placed before the write it should follow
blink_body_wait_first(m, on_time, off_time) ==
  set_backlight(Emit(set_backlight(Emit(m, Sleep(on_time)), TRUE),
                     Sleep(off_time)), FALSE)

\* lines 69-75: one iteration of the loop
blink_body(m, on_time, off_time) ==
  Emit(set_backlight(Emit(set_backlight(m, TRUE), Sleep(on_time)), FALSE),
       Sleep(off_time))

\* lines 68-75: for i in range(count), from iteration i on
RECURSIVE blink_loop(_, _, _, _, _)
blink_loop(m, i, count, on_time, off_time) ==
  IF i >= count THEN m
  ELSE blink_loop(blink_body(m, on_time, off_time), i + 1, count, on_time, off_time)

\* the guard reports but does not return
blink_no_return(m, count, on_time, off_time) ==
  LET g == IF m.control_method = None
           THEN Emit(m, Diag("No backlight control method available"))
           ELSE m
      r == restore_original_state(blink_loop(g, 0, count, on_time, off_time))
  IN [r EXCEPT !.ret = Absent]

\* lines 64-78
blink(m, count, on_time, off_time) ==
  LET r == IF m.control_method = None
           THEN Emit(m, Diag("No backlight control method available"))
           ELSE restore_original_state(blink_loop(m, 0, count, on_time, off_time))
  IN [r EXCEPT !.ret = Absent]

\* ------------------------------------------------------------- actions
\* the state after a call that ended in machine record m
Becomes(m) ==
  /\ display' = m.display
  /\ backlight' = m.backlight
  /\ control_method' = m.control_method
  /\ original_brightness' = m.original_brightness
  /\ original_state' = m.original_state
  /\ brightness' = m.brightness
  /\ value' = m.value
  /\ output_value' = m.output_value
  /\ trace' = m.out
  /\ ret' = m.ret
  /\ pc' = IF m.exc = "none" THEN "ready" ELSE "raised"
  /\ before' = last.op
  /\ UNCHANGED <<board_DISPLAY, board_pins, boot_value>>

\* backlight_controller = TFTBlinky()
Construct ==
  /\ pc = "new"
  /\ \E f25, f32, f33, f35 \in Outcomes, v \in BOOLEAN :
       Becomes(init(Machine, board_DISPLAY, board_pins, f25, f32, f33, f35, v))
  /\ last' = CallRec("__init__", FALSE, 0, 0, 0)

SetBacklight ==
  /\ pc = "ready"
  /\ \E state \in BOOLEAN :
       /\ Becomes(set_backlight(Machine, state))
       /\ last' = CallRec("set_backlight", state, 0, 0, 0)

Blink ==
  /\ pc = "ready"
  /\ \E count \in Counts, on_time \in Durations, off_time \in Durations :
       /\ Becomes(blink(Machine, count, on_time, off_time))
       /\ last' = CallRec("blink", FALSE, count, on_time, off_time)

RestoreOriginalState ==
  /\ pc = "ready"
  /\ Becomes(restore_original_state(Machine))
  /\ last' = CallRec("restore_original_state", FALSE, 0, 0, 0)

Next == Construct \/ SetBacklight \/ Blink \/ RestoreOriginalState

Spec == Init /\ [][Next]_vars

\* ---------------------------------------------------------- properties
Full == BrightnessSteps
IsWrite(e) == e.op \in {"pin_write", "brightness_write"}
IsSleep(e) == e.op = "sleep"
IsLineAccess(e) == e.op \in {"DigitalInOut", "direction_output", "pin_read"}
Events(pred(_)) == {k \in 1..Len(trace) : pred(trace[k])}
NoPinMessage == Diag("No backlight control method available")
CaughtMessage == Diag("No built-in display detected.")
JustBuilt == last.op = "__init__"
Returned(op) == pc = "ready" /\ last.op = op
\* the candidate the priority order designates, None when no name exists
FirstExisting ==
  IF board_pins = {} THEN None
  ELSE backlight_pins[CHOOSE i \in 1..Len(backlight_pins) :
         /\ backlight_pins[i] \in board_pins
         /\ \A j \in 1..(i - 1) : backlight_pins[j] \notin board_pins]
\* a step of construction raised: the error escaped, or the handler ran
SetupRaised == pc = "raised" \/ \E k \in 1..Len(trace) : trace[k] = CaughtMessage
\* construction took a failure path: board has no DISPLAY, a step raised,
\* or the display has no brightness and board no candidate line
FailurePath ==
  \/ board_DISPLAY = "missing"
  \/ SetupRaised
  \/ (board_DISPLAY = "plain" /\ board_pins = {})

\* C1: after blink returns on a controller that captured an original
\* brightness (resp. pin state), the brightness (resp. the level of the
\* line) read back is the captured value, whatever count and durations.
C1_RoundTrip ==
  Returned("blink") =>
    /\ (control_method = "brightness" /\ original_brightness # Absent
          => Some(brightness) = original_brightness)
    /\ (control_method = "pin" /\ original_state # Absent
          => Some(value[backlight]) = original_state)

C1_Witness ==
  /\ Returned("blink") /\ last.count > 0
  /\ control_method = "brightness" /\ original_brightness = Some(0)
  /\ brightness = 0

\* C2: on a Pin controller with captured state p0, blink(N, on, off) does
\* exactly: N times (write true, wait on, write false, wait off), then the
\* call of restore_original_state, whose single write is p0 -- 2N+1 writes,
\* 2N waits, the restoring write after the last wait, also for N = 0.
C2_BlinkSequence ==
  (Returned("blink") /\ control_method = "pin" /\ original_state # Absent) =>
    LET N == last.count IN
    /\ Len(trace) = 4 * N + 3
    /\ \A k \in 1..N :
         /\ trace[4 * k - 3] = PinWrite(backlight, TRUE)
         /\ trace[4 * k - 2] = Sleep(last.on_time)
         /\ trace[4 * k - 1] = PinWrite(backlight, FALSE)
         /\ trace[4 * k] = Sleep(last.off_time)
    /\ trace[4 * N + 1] = Call("restore_original_state")
    /\ trace[4 * N + 2] = PinWrite(backlight, original_state[1])
    /\ trace[4 * N + 3].op = "print"
    /\ Cardinality(Events(IsWrite)) = 2 * N + 1
    /\ Cardinality(Events(IsSleep)) = 2 * N

C2_Witness ==
  /\ Returned("blink") /\ last.count = 2
  /\ control_method = "pin" /\ original_state = Some(FALSE)
  /\ [k \in 1..5 |-> trace[CHOOSE i \in Events(IsWrite) :
          Cardinality({j \in Events(IsWrite) : j < i}) = k - 1].level]
       = <<TRUE, FALSE, TRUE, FALSE, FALSE>>

\* C3: blink on a controller whose control method is None emits exactly one
\* diagnostic and nothing else (no wait, no write, no restore call),
\* leaves the hardware alone and raises no error.
C3_InertBlink ==
  [][(pc = "ready" /\ control_method = None /\ last'.op = "blink") =>
       /\ trace' = <<NoPinMessage>>
       /\ hw' = hw
       /\ pc' = "ready"]_vars

C3_Witness ==
  /\ Returned("blink") /\ control_method = None /\ last.count = MaxCount
  /\ trace = <<NoPinMessage>>

\* C4: construction returns normally for every outcome of the lookup, the
\* brightness read and the pin setup steps, and every failure path leaves
\* the control method None.
C4_ConstructionNeverFails ==
  JustBuilt =>
    /\ pc = "ready"
    /\ (FailurePath => control_method = None)

\* C5: once constructed, exactly the handle of the control method is
\* populated (none under None), and an original value is captured iff its
\* handle is populated.
BrightnessHandle == display = "bright"
PinHandle == backlight # None
C5_DataModelInvariant ==
  pc = "ready" =>
    /\ (control_method = "brightness" => BrightnessHandle /\ ~PinHandle)
    /\ (control_method = "pin" => PinHandle /\ ~BrightnessHandle)
    /\ (control_method = None => ~BrightnessHandle /\ ~PinHandle)
    /\ (original_brightness # Absent <=> BrightnessHandle)
    /\ (original_state # Absent <=> PinHandle)

\* C6: with a display that has no brightness, construction picks the first
\* name of DISPLAY_BACKLIGHT, TFT_BACKLIGHT, BACKLIGHT that exists on board:
\* no other line is ever created, configured or read, the Pin controller
\* holds that line, and with no name the control method is None.  With a
\* display that has brightness, Brightness is chosen and no line is touched.
C6_PinPriority ==
  /\ (control_method = "pin" => backlight = FirstExisting)
  /\ (backlight # None => backlight = FirstExisting)
  /\ JustBuilt =>
       LET touched == {trace[k].name : k \in Events(IsLineAccess)} IN
       /\ touched \subseteq ({FirstExisting} \ {None})
       /\ (board_DISPLAY = "bright" =>
             control_method = "brightness" /\ touched = {})
       /\ (board_DISPLAY = "plain" /\ board_pins = {} =>
             control_method = None)
       /\ (board_DISPLAY = "plain" /\ board_pins # {} =>
             touched = {FirstExisting})
       /\ (board_DISPLAY = "plain" /\ board_pins # {} /\ ~SetupRaised =>
             /\ control_method = "pin"
             /\ backlight = FirstExisting
             /\ \E k \in 1..Len(trace) : trace[k] = SetOutput(FirstExisting))

C6_Witness ==
  /\ JustBuilt /\ pc = "ready"
  /\ board_DISPLAY = "plain" /\ board_pins = {"TFT_BACKLIGHT", "BACKLIGHT"}
  /\ control_method = "pin" /\ backlight = "TFT_BACKLIGHT"

\* C7: set_backlight(s) returns s; under Brightness the brightness is then
\* 1.0 for true and 0.0 for false; under Pin the line reads s; under None
\* nothing is written and no error is raised.
C7_SetBacklight ==
  [][(pc = "ready" /\ last'.op = "set_backlight") =>
       /\ pc' = "ready"
       /\ ret' = Some(last'.state)
       /\ (control_method = "brightness" =>
             brightness' = IF last'.state THEN Full ELSE 0)
       /\ (control_method = "pin" => value'[backlight] = last'.state)
       /\ (control_method = None => hw' = hw /\ trace' = <<>>)]_vars

C7_Witness ==
  /\ Returned("set_backlight") /\ last.state /\ ret = Some(TRUE)
  /\ control_method = "brightness" /\ brightness = Full
  /\ original_brightness = Some(0)

\* C8: a restore_original_state that directly follows another one changes
\* neither the hardware nor the controller, and under None a restore
\* changes nothing and writes nothing.
C8_RestoreIdempotent ==
  [][(pc = "ready" /\ last'.op = "restore_original_state") =>
       /\ (last.op = "restore_original_state" =>
             hw' = hw /\ fields' = fields /\ trace' = trace)
       /\ (control_method = None =>
             hw' = hw /\ fields' = fields /\ Events(IsWrite)' = {})]_vars

C8_Witness ==
  /\ Returned("restore_original_state") /\ before = "restore_original_state"
  /\ control_method = "pin" /\ original_state = Some(TRUE)
  /\ value[backlight] = TRUE

\* C9: after construction no call changes the control method, the handles
\* or the captured original values; only the backlight output changes.
C9_FieldsFixed ==
  [][pc = "ready" => fields' = fields]_vars

C9_Witness ==
  /\ Returned("restore_original_state") /\ before = "set_backlight"
  /\ control_method = "brightness" /\ original_brightness = Some(1)
  /\ brightness = 1

\* C10: on the Pin path the original state is read after the line was made
\* an output and before any backlight write, so what is captured, and what
\* blink later restores, is the level the line took as an output, which can
\* differ from the level it had before construction.
C10_CaptureAfterConfigure ==
  (control_method = "pin" /\ original_state # Absent) =>
    /\ original_state = output_value
    /\ (Returned("blink") => Some(value[backlight]) = output_value)
    /\ (JustBuilt =>
          /\ \E i, j \in 1..Len(trace) :
               /\ i < j
               /\ trace[i] = SetOutput(backlight)
               /\ trace[j] = PinRead(backlight, original_state[1])
          /\ Events(IsWrite) = {})

C10_Witness ==
  /\ Returned("blink") /\ control_method = "pin"
  /\ original_state = Some(FALSE) /\ boot_value[backlight] = TRUE
  /\ value[backlight] = FALSE

====
